---- MODULE Spec2Model ----
(***************************************************************************)
(* The sandboxed runtime session of Editon.                                *)
(*                                                                         *)
(*   useWebContainer       src/modules/webcontainers/hooks/useWebContainer.ts *)
(*   WebContainerPreview   src/modules/webcontainers/components/terminal.tsx  *)
(*                         (lines 371-642: the preview / setup component)  *)
(*                                                                         *)
(* React is modelled by what it does to this code: refs (isTornDown,       *)
(* isInitializing) are shared by every run of the hook's effect, the       *)
(* variables `mounted` and `containerRef` belong to one run of the effect, *)
(* a state setter changes the state at once, and the effects of the        *)
(* preview run in a commit, in declaration order, on the values the        *)
(* component was rendered with.  Every await is a step boundary.           *)
(***************************************************************************)
EXTENDS Naturals, Integers, FiniteSets, Sequences, TLC

\* ------------------------------------------------------------------ bounds
\* Runs of the hook's effect: the mount and the re-runs (StrictMode, refresh).
MaxEffects == 3
\* Setup runs (setupContainer past its guards) of one preview component.
MaxRuns == 2

\* Calls of writeFileSync.
MaxWrites == 2
\* Terminals created by one terminal view (one per run of its effect that
\* passes the guard).
MaxSurfaces == 2

Effects == 1..MaxEffects
Runs == 1..MaxRuns
Surfaces == 1..MaxSurfaces

\* The instance booted by run e of the effect is e: every boot is a new sandbox.
NoInst == 0
Insts == Effects
\* No terminal (term.current is null), no process handle.
NoSurface == 0

\* package.json as the code can tell it apart (BootPkgs and Templates draw
\* from these kinds):
\*   absent  readFile throws            empty  readFile returns ""
\*   bad     content is not JSON        nodev  JSON without scripts.dev
\*   dev     JSON with scripts.dev
\* What a sandbox can hold when it is booted (a sandbox that persisted).
BootPkgs == {"absent", "empty", "nodev"}
\* The manifest of the project tree handed to the preview.
Templates == {"absent", "nodev", "dev"}

VARIABLES
    \* useWebContainer
    isTornDown,       \* ref, line 25
    isInitializing,   \* ref, line 26
    instance,         \* state, line 23
    isReady,          \* state, line 24
    isLoading,        \* state, line 21
    error,            \* state, line 22
    serverUrl,        \* state, line 20
    effects,          \* per run of the effect: mounted, containerRef, boot, timer
    alive,            \* the component tree is mounted
    sandbox,          \* per booted instance: the sandbox behind the API
    \* WebContainerPreview
    previewUrl, currentStep, internalError, isSetupComplete, isSetupInProgress,
    forceResetup,     \* prop
    templateData,     \* prop
    rendered,         \* the dependency values of the last commit
    runs,             \* per setup run: its closure and its position
    \* writeFileSync
    fileCalls,        \* per call of writeFileSync: its closure and its position
    \* TerminalComponent
    theme,            \* prop
    attached,         \* the pane as committed: its handle is attached to the
                      \* preview's ref, and the dependency values of the
                      \* last run of its effect
    term,             \* ref, line 34 (fitAddon and searchAddon go with it)
    shellProcessRef,  \* ref, line 37
    isShellStarting,  \* ref, line 38
    surfaces          \* per terminal created by the effect: its closure

hookVars == <<isTornDown, isInitializing, instance, isReady, isLoading, error,
              serverUrl, effects, alive>>
setupVars == <<previewUrl, currentStep, internalError, isSetupComplete,
               isSetupInProgress, forceResetup, templateData, rendered, runs>>
shellVars == <<theme, attached, term, shellProcessRef, isShellStarting, surfaces>>
vars == <<hookVars, sandbox, setupVars, fileCalls, shellVars>>

\* ------------------------------------------------------------- the sandbox
NewSandbox == [booted |-> FALSE, pkg |-> "absent", listeners |-> 0, teardowns |-> 0]

\* instance.teardown()
Teardown(sb, i) == [sb EXCEPT ![i].teardowns = @ + 1]

\* ------------------------------------------------------- useWebContainer
\* awaitsTeardown: initializeWebContainer is at "await teardown()" (line 47),
\* its finally block has not run yet.  destroyAsked: destroy() was called
\* while the boot of this run was pending (the call found no instance).
\* seen: a render has seen the instance of this run (setInstance on a tree
\* that still renders).
NewEffect == [ran |-> FALSE, mounted |-> FALSE, containerRef |-> NoInst,
              boot |-> "none", timer |-> "none", awaitsTeardown |-> FALSE,
              destroyAsked |-> FALSE, seen |-> FALSE]

\* writeFileSync and destroy are useCallback(..., [instance]) (lines 104,
\* 118): each render makes them over the instance of that render, and a
\* caller may hold the callback of any render so far.  An instance published
\* after the unmount of the tree was committed is seen by no render.
Closures == {NoInst} \cup {e \in Insts : effects[e].seen}

\* The effect run that is set up now (0: none).
Current == IF \E e \in Effects : effects[e].mounted
           THEN CHOOSE e \in Effects : effects[e].mounted ELSE 0
\* The next run of the effect (MaxEffects + 1: the bound is reached).
NextEffect == Cardinality({e \in Effects : effects[e].ran}) + 1

\* initializeWebContainer returns at once ("Prevent multiple initializations").
InitBlockedNoInFlight(initializing, tornDown) == tornDown
InitBlocked(initializing, tornDown) == initializing \/ tornDown

\* The booted instance is torn down instead of handed out.
BootDiscarded(mounted, tornDown) == ~mounted \/ tornDown

\* The cleanup releases the sandbox.
CleanupReleasesAlways(containerRef, tornDown) == containerRef # NoInst
CleanupReleases(containerRef, tornDown) == containerRef # NoInst /\ ~tornDown

\* destroy releases the sandbox.
DestroyReleasesIgnoringTornDown(inst, tornDown) == inst # NoInst
DestroyReleases(inst, tornDown) == inst # NoInst /\ ~tornDown

\* The effect body, run e: mounted = true, then initializeWebContainer() up to
\* its await of WebContainer.boot().  eff, init and torn are the values the
\* body starts from.
RunEffect(e, eff, init, torn) ==
    /\ isTornDown' = torn
    /\ IF InitBlocked(init, torn)
       THEN /\ effects' = [eff EXCEPT ![e] = [@ EXCEPT !.ran = TRUE,
                                     !.mounted = TRUE, !.boot = "skipped"]]
            /\ isInitializing' = init
       ELSE /\ effects' = [eff EXCEPT ![e] = [@ EXCEPT !.ran = TRUE,
                                     !.mounted = TRUE, !.boot = "pending"]]
            /\ isInitializing' = TRUE

\* The cleanup of run e, as a change of (effects, isTornDown).
CleanupEffects(e) ==
    IF CleanupReleases(effects[e].containerRef, isTornDown)
    THEN [effects EXCEPT ![e] = [@ EXCEPT !.mounted = FALSE, !.timer = "pending"]]
    ELSE [effects EXCEPT ![e].mounted = FALSE]
CleanupTornDown(e) ==
    CleanupReleases(effects[e].containerRef, isTornDown) \/ isTornDown

\* The component mounts: the effect runs for the first time.
HookMount ==
    /\ alive /\ NextEffect = 1
    /\ RunEffect(1, effects, isInitializing, isTornDown)
    /\ UNCHANGED <<instance, isReady, isLoading, error, serverUrl, alive, sandbox>>

\* React runs the cleanup and then the effect again (StrictMode, refresh).
EffectRerun ==
    /\ alive /\ Current # 0 /\ NextEffect \in Effects
    /\ RunEffect(NextEffect, CleanupEffects(Current), isInitializing,
                 CleanupTornDown(Current))
    /\ UNCHANGED <<instance, isReady, isLoading, error, serverUrl, alive, sandbox>>

\* The unmount of the tree is committed: the refs are detached and nothing
\* renders any more; the cleanups of the effects have not run yet.
UnmountCommit ==
    /\ alive
    /\ alive' = FALSE
    /\ UNCHANGED <<isTornDown, isInitializing, instance, isReady, isLoading,
                   error, serverUrl, effects, sandbox, setupVars, fileCalls,
                   shellVars>>

\* The component unmounts: the cleanup runs and nothing is set up again (in
\* the same step as the commit, or after it).
Unmount ==
    /\ Current # 0
    /\ effects' = CleanupEffects(Current)
    /\ isTornDown' = CleanupTornDown(Current)
    /\ alive' = FALSE
    /\ UNCHANGED <<isInitializing, instance, isReady, isLoading, error,
                   serverUrl, sandbox>>

\* WebContainer.boot() resolves for run e, with a sandbox holding pkg: the
\* instance is torn down and the function waits for teardown() (line 47, the
\* finally block comes after that await), or the instance is handed out and
\* the finally block runs in the same turn.
BootResolve(e, pkg) ==
    /\ effects[e].boot = "pending"
    /\ IF BootDiscarded(effects[e].mounted, isTornDown)
       THEN /\ sandbox' = Teardown([sandbox EXCEPT ![e] =
                              [@ EXCEPT !.booted = TRUE, !.pkg = pkg]], e)
            /\ effects' = [effects EXCEPT ![e] =
                              [@ EXCEPT !.boot = "discarded", !.awaitsTeardown = TRUE]]
            /\ isInitializing' = isInitializing
            /\ UNCHANGED <<instance, isReady, isLoading>>
       ELSE /\ sandbox' = [sandbox EXCEPT ![e] =
                              [@ EXCEPT !.booted = TRUE, !.pkg = pkg]]
            /\ effects' = [effects EXCEPT ![e] =
                              [@ EXCEPT !.boot = "published", !.containerRef = e,
                                        !.seen = alive]]
            /\ instance' = e
            /\ isReady' = TRUE
            /\ isLoading' = FALSE
            /\ isInitializing' = FALSE
    /\ UNCHANGED <<isTornDown, error, serverUrl, alive>>

\* The await of teardown() in run e is over (it settled either way, lines
\* 46-51): return, and the finally block resets isInitializing (line 65).
DiscardSettles(e) ==
    /\ effects[e].awaitsTeardown
    /\ effects' = [effects EXCEPT ![e].awaitsTeardown = FALSE]
    /\ isInitializing' = FALSE
    /\ UNCHANGED <<isTornDown, instance, isReady, isLoading, error, serverUrl,
                   alive, sandbox>>

\* WebContainer.boot() rejects for run e.
BootReject(e) ==
    /\ effects[e].boot = "pending"
    /\ effects' = [effects EXCEPT ![e].boot = "failed"]
    /\ IF effects[e].mounted
       THEN error' = "boot failed" /\ isLoading' = FALSE
       ELSE UNCHANGED <<error, isLoading>>
    /\ isInitializing' = FALSE
    /\ UNCHANGED <<isTornDown, instance, isReady, serverUrl, alive, sandbox>>

\* The 100 ms timer of the cleanup of run e fires: containerRef?.teardown().
TeardownTimer(e) ==
    /\ effects[e].timer = "pending"
    /\ effects' = [effects EXCEPT ![e].timer = "fired"]
    /\ sandbox' = Teardown(sandbox, effects[e].containerRef)
    /\ UNCHANGED <<isTornDown, isInitializing, instance, isReady, isLoading,
                   error, serverUrl, alive>>

\* destroy(), the callback made over instance c.  It asks for nothing but
\* its closure and the ref: it releases whether or not the tree is still
\* mounted, and with no instance in its closure it does nothing.
Destroy(c) ==
    /\ c \in Closures
    /\ IF DestroyReleases(c, isTornDown)
       THEN /\ isTornDown' = TRUE
            /\ sandbox' = Teardown(sandbox, c)
            /\ instance' = NoInst
            /\ serverUrl' = "null"
            /\ isReady' = FALSE
            /\ effects' = effects
       ELSE /\ effects' = [e \in Effects |->
                              IF effects[e].boot = "pending"
                              THEN [effects[e] EXCEPT !.destroyAsked = TRUE]
                              ELSE effects[e]]
            /\ UNCHANGED <<isTornDown, sandbox, instance, serverUrl, isReady>>
    /\ UNCHANGED <<isInitializing, isLoading, error, alive>>

\* --------------------------------------------------------- writeFileSync
\* The paths a caller hands in, and path.split("/") of each.
Paths == {"a.js", "src/a.js", "/a.js"}
Split(path) ==
    CASE path = "a.js" -> <<"a.js">>
      [] path = "src/a.js" -> <<"src", "a.js">>
      [] path = "/a.js" -> <<"", "a.js">>

\* pathParts.slice(0, -1).join("/") is the empty string, which is falsy
\* (line 94): no segment, or the one empty segment of an absolute path.
FolderPath(path) == SubSeq(Split(path), 1, Len(Split(path)) - 1)
HasFolderAlways(path) == TRUE
HasFolder(path) ==
    ~(FolderPath(path) = <<>> \/ FolderPath(path) = <<"">>)

\* The errors of writeFileSync, as the parts of their messages.
NoError == <<>>
\* line 89
NotAvailable == <<"WebContainer instance is not available">>
\* line 101
WriteFailed(path, cause) == <<"Failed to write file at ", path, ": ", cause>>

\* line 88: if (!instance || isTornDown.current)
WriteBlockedIgnoringTornDown(inst, tornDown) == inst = NoInst
WriteBlocked(inst, tornDown) == inst = NoInst \/ tornDown

\* A call of the callback made over instance c.
NewCall(c, path) ==
    [path |-> path, inst |-> c, pc |-> "err", err |-> NoError,
     mkdirs |-> 0, writes |-> 0]

\* writeFileSync(path, content), the callback made over instance c, up to its
\* first await.
WriteFileSync(c, path) ==
    /\ c \in Closures
    /\ Len(fileCalls) < MaxWrites
    /\ fileCalls' = Append(fileCalls,
          IF WriteBlocked(c, isTornDown)
          THEN [NewCall(c, path) EXCEPT !.err = NotAvailable]
          ELSE IF HasFolder(path)
               THEN [NewCall(c, path) EXCEPT !.pc = "mkdir", !.mkdirs = 1]
               ELSE [NewCall(c, path) EXCEPT !.pc = "write", !.writes = 1])
    /\ UNCHANGED <<hookVars, sandbox, setupVars, shellVars>>

\* instance.fs.mkdir(folderPath, {recursive: true}) settles.
MkdirDone(w, ok) ==
    /\ w \in 1..Len(fileCalls)
    /\ fileCalls[w].pc = "mkdir"
    /\ fileCalls' = [fileCalls EXCEPT ![w] =
          IF ok
          THEN [@ EXCEPT !.pc = "write", !.writes = @ + 1]
          ELSE [@ EXCEPT !.pc = "err", !.err = WriteFailed(fileCalls[w].path, "mkdir")]]
    /\ UNCHANGED <<hookVars, sandbox, setupVars, shellVars>>

\* instance.fs.writeFile(path, content) settles.
WriteDone(w, ok) ==
    /\ w \in 1..Len(fileCalls)
    /\ fileCalls[w].pc = "write"
    /\ fileCalls' = [fileCalls EXCEPT ![w] =
          IF ok
          THEN [@ EXCEPT !.pc = "ok"]
          ELSE [@ EXCEPT !.pc = "err", !.err = WriteFailed(fileCalls[w].path, "writeFile")]]
    /\ UNCHANGED <<hookVars, sandbox, setupVars, shellVars>>

\* ------------------------------------------------- WebContainerPreview
\* The sandbox's file system answers readFile("package.json") as it is when
\* the call is made: the content, or a rejection.
ReadFile(sb) == IF sb.teardowns > 0 \/ sb.pkg = "absent" THEN "throw" ELSE sb.pkg

\* instance.mount(files): the tree is laid over the file system.
MountPkg(pkg, tmpl) == IF tmpl = "absent" THEN pkg ELSE tmpl

\* The state of the component, as one record.
SetupState == [url |-> previewUrl, step |-> currentStep, err |-> internalError,
               complete |-> isSetupComplete, inProgress |-> isSetupInProgress]
SetState(s) ==
    /\ previewUrl' = s.url
    /\ currentStep' = s.step
    /\ internalError' = s.err
    /\ isSetupComplete' = s.complete
    /\ isSetupInProgress' = s.inProgress

\* The dependency values of the effects, as the component is rendered now.
Deps == [committed |-> TRUE, inst |-> instance, tmpl |-> templateData,
         complete |-> isSetupComplete, inProgress |-> isSetupInProgress,
         loading |-> isLoading, force |-> forceResetup]

\* The first effect: "Reset state if forceResetup is triggered".
ForceReset(s) ==
    [s EXCEPT !.complete = FALSE, !.inProgress = FALSE, !.url = "",
              !.err = "null", !.step = 0]

\* The first effect runs (its dependency changed) and its condition holds.
ResetFires(prev, snap) == (~prev.committed \/ prev.force # snap.force) /\ snap.force

\* setupContainer passes its two guards.
SetupStarts(snap) ==
    snap.inst # NoInst /\ ~snap.complete /\ ~snap.inProgress /\ ~snap.loading

\* setupContainer up to its first await.
SetupBegin(s) == [s EXCEPT !.inProgress = TRUE, !.err = "null"]

\* The closure of a run: instance, forceResetup and templateData of the render;
\* rd is the answer to the readFile it has just issued.  installPipe and
\* startPipe are the output pipes of the two processes (none, open, failed);
\* unhandled: a promise of the run rejected with no handler.
NewRun(snap) == [pc |-> "detect", how |-> "none", inst |-> snap.inst,
                 force |-> snap.force, tmpl |-> snap.tmpl,
                 rd |-> ReadFile(sandbox[snap.inst]), code |-> -1,
                 cmd |-> "none",
                 mounts |-> 0, rms |-> 0, installs |-> 0, starts |-> 0,
                 listens |-> 0, reported |-> FALSE, written |-> FALSE,
                 installPipe |-> "none", startPipe |-> "none",
                 unhandled |-> FALSE]

\* A render is committed: the effects whose dependencies changed run, the
\* reset first, on the values of that render; their updates apply in order.
Commit ==
    /\ alive /\ Deps # rendered
    /\ LET snap == Deps
           s0 == SetupState
           s1 == IF ResetFires(rendered, snap) THEN ForceReset(s0) ELSE s0
       IN  /\ rendered' = snap
           /\ IF SetupStarts(snap)
              THEN /\ Len(runs) < MaxRuns
                   /\ SetState(SetupBegin(s1))
                   /\ runs' = Append(runs, NewRun(snap))
              ELSE /\ SetState(s1)
                   /\ runs' = runs
    /\ UNCHANGED <<hookVars, fileCalls, shellVars, sandbox, forceResetup, templateData>>

\* packageJsonExists && !forceResetup
IsReconnectingIgnoringForce(rd, force) == rd \notin {"throw", "empty"}
IsReconnectingWhenForced(rd, force) == rd \notin {"throw", "empty"} /\ force
IsReconnecting(rd, force) == rd \notin {"throw", "empty"} /\ ~force

\* instance.on("server-ready", ...)
AddListener(sb, i) == [sb EXCEPT ![i].listeners = @ + 1]

\* The reconnect path and the end of the start stage.
SetupDone(s) == [s EXCEPT !.complete = TRUE, !.inProgress = FALSE]
\* The soft failure of install.
SoftFailSilent(s) == [s EXCEPT !.complete = TRUE, !.inProgress = FALSE]
SoftFail(s) == [s EXCEPT !.err = "install failed", !.complete = TRUE,
                         !.inProgress = FALSE]
\* The catch block of setupContainer.
FatalLeavesInProgress(s) == [s EXCEPT !.err = "fatal", !.complete = TRUE]
Fatal(s) == [s EXCEPT !.err = "fatal", !.inProgress = FALSE, !.complete = TRUE]

\* terminalRef.current of the preview: the handle the terminal pane exposes
\* while it is mounted (it is loaded lazily, line 380; useImperativeHandle,
\* lines 50-58).
PaneHandle == alive /\ attached.handle

\* The catch block's part in the run: nothing after it executes, and the
\* message goes to terminalRef.current?.writeToTerminal (line 540): it is
\* handed over if the pane's handle exists (reported), and the pane writes it
\* if it has a terminal (term.current?.write, line 52: written).
CaughtSilently(run, handle, cur) == [run EXCEPT !.pc = "done", !.how = "fatal"]
Caught(run, handle, cur) ==
    [run EXCEPT !.pc = "done", !.how = "fatal", !.reported = handle,
                !.written = handle /\ cur # NoSurface]

InstallFailed(code) == code # 0

\* "Smart detect start command"
StartCommandWhenReadable(rd) == IF rd \notin {"throw", "empty"} THEN "dev" ELSE "start"
StartCommand(rd) == IF rd = "dev" THEN "dev" ELSE "start"

At(r, pc) == r \in 1..Len(runs) /\ runs[r].pc = pc

\* readFile answers: the reconnect path, or steps 1 and 2 up to await mount.
DetectDone(r) ==
    /\ At(r, "detect")
    /\ IF IsReconnecting(runs[r].rd, runs[r].force)
       THEN /\ sandbox' = AddListener(sandbox, runs[r].inst)
            /\ SetState(SetupDone(SetupState))
            /\ runs' = [runs EXCEPT ![r] = [@ EXCEPT !.pc = "done", !.rd = "none",
                                  !.how = "reconnect", !.listens = @ + 1]]
       ELSE /\ SetState([SetupState EXCEPT !.step = 2])
            /\ runs' = [runs EXCEPT ![r] = [@ EXCEPT !.pc = "mount", !.rd = "none",
                                  !.mounts = @ + 1]]
            /\ sandbox' = sandbox
    /\ UNCHANGED <<hookVars, fileCalls, shellVars, forceResetup, templateData, rendered>>

\* mount answers: step 3 up to await fs.rm, or the catch block.
MountDoneRetries(r, ok) ==
    /\ At(r, "mount")
    /\ IF ok
       THEN /\ sandbox' = [sandbox EXCEPT ![runs[r].inst].pkg = MountPkg(@, runs[r].tmpl)]
            /\ SetState([SetupState EXCEPT !.step = 3])
            /\ runs' = [runs EXCEPT ![r] = [@ EXCEPT !.pc = "rm", !.rms = @ + 1]]
       ELSE /\ sandbox' = sandbox
            /\ IF runs[r].mounts < 2
               THEN /\ SetState(SetupState)
                    /\ runs' = [runs EXCEPT ![r].mounts = @ + 1]
               ELSE /\ SetState(Fatal(SetupState))
                    /\ runs' = [runs EXCEPT ![r] = Caught(@, PaneHandle, term)]
    /\ UNCHANGED <<hookVars, fileCalls, shellVars, forceResetup, templateData, rendered>>
MountDone(r, ok) ==
    /\ At(r, "mount")
    /\ IF ok
       THEN /\ sandbox' = [sandbox EXCEPT ![runs[r].inst].pkg = MountPkg(@, runs[r].tmpl)]
            /\ SetState([SetupState EXCEPT !.step = 3])
            /\ runs' = [runs EXCEPT ![r] = [@ EXCEPT !.pc = "rm", !.rms = @ + 1]]
       ELSE /\ sandbox' = sandbox
            /\ SetState(Fatal(SetupState))
            /\ runs' = [runs EXCEPT ![r] = Caught(@, PaneHandle, term)]
    /\ UNCHANGED <<hookVars, fileCalls, shellVars, forceResetup, templateData, rendered>>

\* fs.rm answers (either way is tolerated): up to await spawn of npm install.
RmDone(r, ok) ==
    /\ At(r, "rm")
    /\ runs' = [runs EXCEPT ![r] = [@ EXCEPT !.pc = "spawnInstall", !.installs = @ + 1]]
    /\ UNCHANGED <<hookVars, fileCalls, shellVars, sandbox, previewUrl, currentStep, internalError,
                   isSetupComplete, isSetupInProgress, forceResetup,
                   templateData, rendered>>

\* spawn of npm install answers: up to await installProcess.exit, or the catch.
InstallSpawned(r, ok) ==
    /\ At(r, "spawnInstall")
    /\ IF ok
       THEN /\ runs' = [runs EXCEPT ![r] = [@ EXCEPT !.pc = "install",
                                                      !.installPipe = "open"]]
            /\ SetState(SetupState)
       ELSE /\ SetState(Fatal(SetupState))
            /\ runs' = [runs EXCEPT ![r] = Caught(@, PaneHandle, term)]
    /\ UNCHANGED <<hookVars, fileCalls, shellVars, sandbox, forceResetup, templateData, rendered>>

\* npm install exits: the soft failure, or step 4 up to await readFile.
InstallExit(r, code) ==
    /\ At(r, "install")
    /\ IF InstallFailed(code)
       THEN /\ SetState(SoftFail(SetupState))
            /\ runs' = [runs EXCEPT ![r] = [@ EXCEPT !.pc = "done", !.how = "softfail",
                                  !.code = code]]
       ELSE /\ SetState([SetupState EXCEPT !.step = 4])
            /\ runs' = [runs EXCEPT ![r] = [@ EXCEPT !.pc = "readPkg", !.code = code,
                                  !.rd = ReadFile(sandbox[runs[r].inst])]]
    /\ UNCHANGED <<hookVars, fileCalls, shellVars, sandbox, forceResetup, templateData, rendered>>

\* readFile answers: the start command, up to await spawn of npm run.
ReadPkgDone(r) ==
    /\ At(r, "readPkg")
    /\ runs' = [runs EXCEPT ![r] = [@ EXCEPT !.pc = "spawnStart", !.starts = @ + 1,
                                          !.cmd = StartCommand(runs[r].rd),
                                          !.rd = "none"]]
    /\ UNCHANGED <<hookVars, fileCalls, shellVars, sandbox, previewUrl, currentStep, internalError,
                   isSetupComplete, isSetupInProgress, forceResetup,
                   templateData, rendered>>

\* spawn of npm run answers: the listener and the end of the run, or the catch.
StartSpawned(r, ok) ==
    /\ At(r, "spawnStart")
    /\ IF ok
       THEN /\ sandbox' = AddListener(sandbox, runs[r].inst)
            /\ SetState(SetupDone(SetupState))
            /\ runs' = [runs EXCEPT ![r] = [@ EXCEPT !.pc = "done",
                                  !.how = "started", !.listens = @ + 1,
                                  !.startPipe = "open"]]
       ELSE /\ sandbox' = sandbox
            /\ SetState(Fatal(SetupState))
            /\ runs' = [runs EXCEPT ![r] = Caught(@, PaneHandle, term)]
    /\ UNCHANGED <<hookVars, fileCalls, shellVars, forceResetup, templateData, rendered>>

\* The output pipe of npm install fails: the promise of pipeTo (lines 487-489)
\* rejects, and nothing handles it.
InstallPipeFails(r) ==
    /\ r \in 1..Len(runs) /\ runs[r].installPipe = "open"
    /\ runs' = [runs EXCEPT ![r] = [@ EXCEPT !.installPipe = "failed",
                                            !.unhandled = TRUE]]
    /\ UNCHANGED <<hookVars, fileCalls, shellVars, sandbox, previewUrl, currentStep,
                   internalError, isSetupComplete, isSetupInProgress, forceResetup,
                   templateData, rendered>>

\* The output pipe of npm run fails (lines 529-531).
StartPipeFails(r) ==
    /\ r \in 1..Len(runs) /\ runs[r].startPipe = "open"
    /\ runs' = [runs EXCEPT ![r] = [@ EXCEPT !.startPipe = "failed",
                                            !.unhandled = TRUE]]
    /\ UNCHANGED <<hookVars, fileCalls, shellVars, sandbox, previewUrl, currentStep,
                   internalError, isSetupComplete, isSetupInProgress, forceResetup,
                   templateData, rendered>>

\* The sandbox emits server-ready: every registered listener publishes the url.
ServerReadyUnlistened(i) ==
    /\ sandbox[i].booted /\ sandbox[i].teardowns = 0
    /\ previewUrl' = "url"
    /\ UNCHANGED <<hookVars, fileCalls, shellVars, sandbox, currentStep, internalError, isSetupComplete,
                   isSetupInProgress, forceResetup, templateData, rendered, runs>>
ServerReady(i) ==
    /\ sandbox[i].booted /\ sandbox[i].teardowns = 0 /\ sandbox[i].listeners > 0
    /\ previewUrl' = "url"
    /\ UNCHANGED <<hookVars, fileCalls, shellVars, sandbox, currentStep, internalError, isSetupComplete,
                   isSetupInProgress, forceResetup, templateData, rendered, runs>>

\* The parent changes the prop forceResetup.
ToggleForce ==
    /\ alive
    /\ forceResetup' = ~forceResetup
    /\ UNCHANGED <<hookVars, fileCalls, shellVars, sandbox, previewUrl, currentStep, internalError,
                   isSetupComplete, isSetupInProgress, templateData, rendered, runs>>

\* ---------------------------------------------------- TerminalComponent
Themes == {"dark", "light"}

\* A dimension that is not a number (fit() on a container that is not laid
\* out); every comparison with it is false.
NaN == -1000
\* The fallback of startShell (lines 112-113).
DefaultCols == 80
DefaultRows == 24
\* new Terminal({...}) without cols and rows: the size before any fit().
InitialSize == <<80, 24>>
\* No process, no size.
NoSize == <<0, 0>>
\* The sizes <<cols, rows>> a terminal can report after fit().
Sizes == {InitialSize, <<100, 30>>, <<0, 30>>, <<100, -1>>, <<NaN, NaN>>}

\* x > 0 in JavaScript
Positive(x) == x # NaN /\ x > 0
\* terminal.cols && terminal.cols > 0 ? terminal.cols : 80
SafeColsUnchecked(cols) == cols
SafeCols(cols) == IF cols # 0 /\ cols # NaN /\ Positive(cols) THEN cols ELSE DefaultCols
SafeRows(rows) == IF rows # 0 /\ rows # NaN /\ Positive(rows) THEN rows ELSE DefaultRows

\* line 162: size.cols > 0 && size.rows > 0 && shellProcessRef.current
ResizeForwarded(size, ref) ==
    Positive(size[1]) /\ Positive(size[2]) /\ ref # NoSurface

\* The preview returns the boot loader instead of the pane (line 552).
PaneRenderedUnlessError(loading, inst, err) ==
    ~(loading /\ inst = NoInst) /\ err = "null"
PaneRendered(loading, inst, err) == ~(loading /\ inst = NoInst)

\* The terminal view is in the tree, and the dependencies of its effect.
TermDeps ==
    IF alive /\ PaneRendered(isLoading, instance, internalError)
    THEN [mounted |-> TRUE, inst |-> instance, theme |-> theme, handle |-> TRUE]
    ELSE [mounted |-> FALSE, inst |-> NoInst, theme |-> "dark", handle |-> FALSE]

\* The commit that mounts the pane: useImperativeHandle attaches the handle
\* to the preview's ref (lines 50-58, 630); the pane's effect has not run yet.
PaneLayout ==
    /\ TermDeps.mounted /\ ~attached.mounted /\ ~attached.handle
    /\ attached' = [attached EXCEPT !.handle = TRUE]
    /\ UNCHANGED <<hookVars, sandbox, setupVars, fileCalls, theme, term,
                   shellProcessRef, isShellStarting, surfaces>>

\* What the effect creates for one terminal, and the closure of its callbacks:
\*   state     the xterm surface: none, open, disposed
\*   timer     initTimer: none, pending, fired, cleared
\*   observing the ResizeObserver is connected;  frame: a frame is requested
\*   pc        startShell: idle, skipped, wait, spawn, wired, failed, exited
\*   proc      the shell process: none, alive, killed, exited
\*   dataL, resizeL  the listeners registered on the surface
\*   stale     a callback has acted on the surface after it was disposed
\*   size      terminal.cols, terminal.rows
\*   pty       the size the shell process was spawned with or last resized to
\*   fed       the shell process has been sent input
\*   out       the last thing startShell's code wrote to the surface:
\*             none, banner, data, exit, error
\*   killThrew the cleanup's kill() of this surface's process threw
\*   piped     the output pipe of the shell process is connected
\*   logged    the data paths whose failure was caught and logged
\*   unhandled a promise of one of the data paths rejected with no handler
NewSurface ==
    [state |-> "none", inst |-> NoInst, timer |-> "none", observing |-> FALSE,
     frame |-> FALSE, pc |-> "idle", proc |-> "none", dataL |-> FALSE,
     resizeL |-> FALSE, stale |-> FALSE, size |-> InitialSize, pty |-> NoSize,
     fed |-> FALSE, out |-> "none", killThrew |-> FALSE, piped |-> FALSE,
     logged |-> {}, unhandled |-> FALSE]

NextSurface ==
    IF \E a \in Surfaces : surfaces[a].state = "none"
    THEN CHOOSE a \in Surfaces :
             /\ surfaces[a].state = "none"
             /\ \A b \in Surfaces : b < a => surfaces[b].state # "none"
    ELSE NoSurface

\* line 63: if (term.current || !webContainerInstance || !terminalRef.current)
TermGuardIgnoringInstance(cur, inst) == cur # NoSurface
TermGuard(cur, inst) == cur # NoSurface \/ inst = NoInst

Disposed(a) == surfaces[a].state = "disposed"
\* A callback of surface a calls into its terminal or its fit addon.
Touch(sf, a) == [sf EXCEPT ![a].stale = @ \/ sf[a].state = "disposed"]
\* ... behind "if (term.current)" (lines 140, 176, 188).
TouchIfTerm(sf, a, cur) == IF cur # NoSurface THEN Touch(sf, a) ELSE sf
\* terminal.write(...) of surface a, bare (line 115) and behind the guard.
Write(sf, a, what) == [Touch(sf, a) EXCEPT ![a].out = what]
WriteIfTermUnguarded(sf, a, cur, what) == Write(sf, a, what)
WriteIfTerm(sf, a, cur, what) == IF cur # NoSurface THEN Write(sf, a, what) ELSE sf

\* The cleanup of the effect that created surface a (lines 212-228).
\* shellProcessRef.current.kill() inside its try (lines 215-220): the process
\* is killed, or kill throws (killed = FALSE) and the process is as it was.
KillShell(sf, ref, killed) ==
    IF ref # NoSurface /\ sf[ref].proc = "alive"
    THEN IF killed THEN [sf EXCEPT ![ref].proc = "killed"]
                   ELSE [sf EXCEPT ![ref].killThrew = TRUE]
    ELSE sf
KillThrows(sf, ref, killed) ==
    ref # NoSurface /\ sf[ref].proc = "alive" /\ ~killed
TermCleanupKeepsTimer(sf, a, ref, killed) ==
    [KillShell(sf, ref, killed) EXCEPT ![a].observing = FALSE, ![a].state = "disposed"]
TermCleanupStopsOnThrow(sf, a, ref, killed) ==
    IF KillThrows(sf, ref, killed)
    THEN [KillShell(sf, ref, killed) EXCEPT
            ![a].timer = IF @ = "pending" THEN "cleared" ELSE @,
            ![a].observing = FALSE]
    ELSE [KillShell(sf, ref, killed) EXCEPT
            ![a].timer = IF @ = "pending" THEN "cleared" ELSE @,
            ![a].observing = FALSE,
            ![a].state = "disposed"]
TermCleanup(sf, a, ref, killed) ==
    [KillShell(sf, ref, killed) EXCEPT
        ![a].timer = IF @ = "pending" THEN "cleared" ELSE @,
        ![a].observing = FALSE,
        ![a].state = "disposed"]

\* The terminal view mounts, its effect re-fires on a change of
\* [webContainerInstance, theme], or it unmounts: the cleanup of the last run
\* (if that run got past the guard), then the body of the effect.  killed is
\* the outcome of the cleanup's kill().
TermCommit ==
  \E killed \in BOOLEAN :
    /\ TermDeps # attached
    /\ attached' = TermDeps
    /\ LET cleaned == IF term # NoSurface
                      THEN TermCleanup(surfaces, term, shellProcessRef, killed)
                      ELSE surfaces
           ref == IF term # NoSurface THEN NoSurface ELSE shellProcessRef
           starting == IF term # NoSurface THEN FALSE ELSE isShellStarting
           a == NextSurface
       IN  IF ~TermDeps.mounted \/ TermGuard(NoSurface, TermDeps.inst)
           THEN /\ term' = NoSurface
                /\ surfaces' = cleaned
                /\ shellProcessRef' = ref
                /\ isShellStarting' = starting
           ELSE /\ a # NoSurface
                /\ term' = a
                /\ surfaces' = [cleaned EXCEPT ![a] =
                      [NewSurface EXCEPT !.state = "open", !.inst = TermDeps.inst,
                                         !.timer = "pending", !.observing = TRUE]]
                /\ shellProcessRef' = ref
                /\ isShellStarting' = starting
    /\ UNCHANGED <<hookVars, sandbox, setupVars, fileCalls, theme>>

\* The parent passes another theme.
ThemeChange ==
    /\ attached.mounted
    /\ theme' = IF theme = "dark" THEN "light" ELSE "dark"
    /\ UNCHANGED <<hookVars, sandbox, setupVars, fileCalls, attached, term,
                   shellProcessRef, isShellStarting, surfaces>>

\* initTimer fires: startShell up to its 50 ms wait (lines 91-108).
InitTimerFires(a) ==
    /\ surfaces[a].timer = "pending"
    /\ IF isShellStarting
       THEN /\ surfaces' = [surfaces EXCEPT ![a].timer = "fired",
                                            ![a].pc = "skipped"]
            /\ isShellStarting' = isShellStarting
       ELSE IF surfaces[a].inst = NoInst
            THEN /\ surfaces' = WriteIfTerm(
                        [surfaces EXCEPT ![a].timer = "fired", ![a].pc = "failed"],
                        a, term, "error")
                 /\ isShellStarting' = FALSE
            ELSE /\ surfaces' = Touch(
                        [surfaces EXCEPT ![a].timer = "fired", ![a].pc = "wait"], a)
                 /\ isShellStarting' = TRUE
    /\ UNCHANGED <<hookVars, sandbox, setupVars, fileCalls, theme, attached,
                   term, shellProcessRef>>

\* The wait is over: the banner is written and jsh is spawned (lines 112-120).
WaitDone(a) ==
    /\ surfaces[a].pc = "wait"
    /\ surfaces' = Write([surfaces EXCEPT ![a].pc = "spawn",
                             ![a].pty = <<SafeCols(surfaces[a].size[1]),
                                          SafeRows(surfaces[a].size[2])>>],
                          a, "banner")
    /\ UNCHANGED <<hookVars, sandbox, setupVars, fileCalls, theme, attached,
                   term, shellProcessRef, isShellStarting>>

\* spawn settles: the process is stored and wired (lines 134-184), or the
\* catch block reports (lines 186-191); finally (line 193).
SpawnDone(a, got) ==
    /\ surfaces[a].pc = "spawn"
    /\ IF got = "process"
       THEN /\ shellProcessRef' = a
            /\ surfaces' = Touch([surfaces EXCEPT ![a].pc = "wired",
                                     ![a].proc = "alive", ![a].piped = TRUE,
                                     ![a].dataL = TRUE, ![a].resizeL = TRUE], a)
       ELSE /\ shellProcessRef' = shellProcessRef
            /\ surfaces' = WriteIfTerm([surfaces EXCEPT ![a].pc = "failed"],
                                       a, term, "error")
    /\ isShellStarting' = FALSE
    /\ UNCHANGED <<hookVars, sandbox, setupVars, fileCalls, theme, attached, term>>

\* The shell prints: the sink of the output pipe (lines 139-143).
ShellOutput(a) ==
    /\ surfaces[a].proc = "alive" /\ surfaces[a].piped
    /\ surfaces' = WriteIfTerm(surfaces, a, term, "data")
    /\ UNCHANGED <<hookVars, sandbox, setupVars, fileCalls, theme, attached,
                   term, shellProcessRef, isShellStarting>>

\* The shell process ends, by itself or killed: the exit handler (175-181).
ShellExitKeepsListeners(a) ==
    /\ surfaces[a].proc \in {"alive", "killed"}
    /\ surfaces' = WriteIfTerm([surfaces EXCEPT ![a].pc = "exited",
                                   ![a].proc = "exited"], a, term, "exit")
    /\ shellProcessRef' = NoSurface
    /\ UNCHANGED <<hookVars, sandbox, setupVars, fileCalls, theme, attached,
                   term, isShellStarting>>
ShellExit(a) ==
    /\ surfaces[a].proc \in {"alive", "killed"}
    /\ surfaces' = WriteIfTerm([surfaces EXCEPT ![a].pc = "exited",
                                   ![a].proc = "exited", ![a].dataL = FALSE,
                                   ![a].resizeL = FALSE], a, term, "exit")
    /\ shellProcessRef' = NoSurface
    /\ UNCHANGED <<hookVars, sandbox, setupVars, fileCalls, theme, attached,
                   term, isShellStarting>>

\* The outcomes of input.write(data): it is accepted, it throws, or the
\* promise it returns rejects.
WriteResults == {"ok", "throws", "rejects"}

\* The terminal of surface a takes another size (a fit() found the container
\* changed): its onResize listener, if registered (lines 161-172).  ok is the
\* outcome of shellProcess.resize(): it returns, or it throws into the catch.
Resize(a, size, ok) ==
    /\ surfaces[a].state = "open"
    /\ size # surfaces[a].size
    /\ surfaces' = [surfaces EXCEPT
          ![a].size = size,
          ![a].pty = IF surfaces[a].resizeL /\ ResizeForwarded(size, shellProcessRef) /\ ok
                     THEN size ELSE @,
          ![a].logged = IF surfaces[a].resizeL /\ ResizeForwarded(size, shellProcessRef) /\ ~ok
                        THEN @ \cup {"resize"} ELSE @]
    /\ UNCHANGED <<hookVars, sandbox, setupVars, fileCalls, theme, attached,
                   term, shellProcessRef, isShellStarting>>

\* A key is typed into the terminal of surface a: its onData listener, if
\* registered (lines 152-158).  The try/catch around input.write(data) sees
\* what the call throws; the promise the call returns is dropped.
Keystroke(a, res) ==
    /\ surfaces[a].state = "open"
    /\ surfaces' = [surfaces EXCEPT
          ![a].fed = @ \/ (surfaces[a].dataL /\ res = "ok"),
          ![a].logged = IF surfaces[a].dataL /\ res = "throws"
                        THEN @ \cup {"input"} ELSE @,
          ![a].unhandled = @ \/ (surfaces[a].dataL /\ res = "rejects")]
    /\ UNCHANGED <<hookVars, sandbox, setupVars, fileCalls, theme, attached,
                   term, shellProcessRef, isShellStarting>>

\* The output pipe of the shell of surface a fails: pipeTo rejects into its
\* .catch (lines 145-147), and nothing is piped any more.
OutputPipeFails(a) ==
    /\ surfaces[a].piped /\ surfaces[a].proc \in {"alive", "killed"}
    /\ surfaces' = [surfaces EXCEPT ![a].piped = FALSE,
                                    ![a].logged = @ \cup {"output"}]
    /\ UNCHANGED <<hookVars, sandbox, setupVars, fileCalls, theme, attached,
                   term, shellProcessRef, isShellStarting>>

\* The ResizeObserver reports: a frame is requested (lines 204-206).
ObserverFires(a) ==
    /\ surfaces[a].observing /\ ~surfaces[a].frame
    /\ surfaces' = [surfaces EXCEPT ![a].frame = TRUE]
    /\ UNCHANGED <<hookVars, sandbox, setupVars, fileCalls, theme, attached,
                   term, shellProcessRef, isShellStarting>>

\* The requested frame runs: fitAddonInstance.fit() (line 207).
FrameRuns(a) ==
    /\ surfaces[a].frame
    /\ surfaces' = Touch([surfaces EXCEPT ![a].frame = FALSE], a)
    /\ UNCHANGED <<hookVars, sandbox, setupVars, fileCalls, theme, attached,
                   term, shellProcessRef, isShellStarting>>

HookInit ==
    /\ isTornDown = FALSE
    /\ isInitializing = FALSE
    /\ instance = NoInst
    /\ isReady = FALSE
    /\ isLoading = TRUE
    /\ error = "null"
    /\ serverUrl = "null"
    /\ effects = [e \in Effects |-> NewEffect]
    /\ alive = TRUE
    /\ sandbox = [i \in Insts |-> NewSandbox]

SetupInit ==
    /\ previewUrl = ""
    /\ currentStep = 0
    /\ internalError = "null"
    /\ isSetupComplete = FALSE
    /\ isSetupInProgress = FALSE
    /\ forceResetup = FALSE
    /\ templateData \in Templates
    /\ rendered = [committed |-> FALSE, inst |-> NoInst, tmpl |-> templateData,
                   complete |-> FALSE, inProgress |-> FALSE, loading |-> TRUE,
                   force |-> FALSE]
    /\ runs = <<>>

FileInit == fileCalls = <<>>

ShellInit ==
    /\ theme = "dark"
    /\ attached = [mounted |-> FALSE, inst |-> NoInst, theme |-> "dark",
                   handle |-> FALSE]
    /\ term = NoSurface
    /\ shellProcessRef = NoSurface
    /\ isShellStarting = FALSE
    /\ surfaces = [a \in Surfaces |-> NewSurface]

Init == HookInit /\ SetupInit /\ FileInit /\ ShellInit

NextHook ==
    \/ HookMount /\ UNCHANGED <<setupVars, fileCalls, shellVars>>
    \/ EffectRerun /\ UNCHANGED <<setupVars, fileCalls, shellVars>>
    \/ Unmount /\ UNCHANGED <<setupVars, fileCalls, shellVars>>
    \/ \E e \in Effects, pkg \in BootPkgs : BootResolve(e, pkg) /\ UNCHANGED <<setupVars, fileCalls, shellVars>>
    \/ \E e \in Effects : BootReject(e) /\ UNCHANGED <<setupVars, fileCalls, shellVars>>
    \/ \E e \in Effects : DiscardSettles(e) /\ UNCHANGED <<setupVars, fileCalls, shellVars>>
    \/ \E e \in Effects : TeardownTimer(e) /\ UNCHANGED <<setupVars, fileCalls, shellVars>>
    \/ \E c \in {NoInst} \cup Insts : Destroy(c) /\ UNCHANGED <<setupVars, fileCalls, shellVars>>

\* The hook alone: the preview reads the hook's state and never writes it.
SpecHook == Init /\ [][NextHook]_vars

NextSetup ==
    \/ Commit
    \/ \E r \in Runs : DetectDone(r)
    \/ \E r \in Runs, ok \in BOOLEAN : MountDone(r, ok)
    \/ \E r \in Runs, ok \in BOOLEAN : RmDone(r, ok)
    \/ \E r \in Runs, ok \in BOOLEAN : InstallSpawned(r, ok)
    \/ \E r \in Runs, code \in {0, 1} : InstallExit(r, code)
    \/ \E r \in Runs : ReadPkgDone(r)
    \/ \E r \in Runs, ok \in BOOLEAN : StartSpawned(r, ok)
    \/ \E i \in Insts : ServerReady(i)
    \/ ToggleForce

\* The hook in a tree whose effects run once (no StrictMode, no refresh).
NextHookOnce ==
    \/ HookMount /\ UNCHANGED <<setupVars, fileCalls, shellVars>>
    \/ Unmount /\ UNCHANGED <<setupVars, fileCalls, shellVars>>
    \/ \E e \in Effects, pkg \in BootPkgs : BootResolve(e, pkg) /\ UNCHANGED <<setupVars, fileCalls, shellVars>>
    \/ \E e \in Effects : BootReject(e) /\ UNCHANGED <<setupVars, fileCalls, shellVars>>
    \/ \E e \in Effects : DiscardSettles(e) /\ UNCHANGED <<setupVars, fileCalls, shellVars>>
    \/ \E e \in Effects : TeardownTimer(e) /\ UNCHANGED <<setupVars, fileCalls, shellVars>>
    \/ \E c \in {NoInst} \cup Insts : Destroy(c) /\ UNCHANGED <<setupVars, fileCalls, shellVars>>

Next == NextHookOnce \/ NextSetup

\* The session: the hook, the sandbox and the preview.
Spec == Init /\ [][Next]_vars

\* The preview on a session that is booted and not released: the setup runs
\* alone, with every answer of the sandbox (a rejected mount or spawn, either
\* exit code) still open.
NextBoot ==
    \/ HookMount /\ UNCHANGED <<setupVars, fileCalls, shellVars>>
    \/ \E e \in Effects, pkg \in BootPkgs : BootResolve(e, pkg) /\ UNCHANGED <<setupVars, fileCalls, shellVars>>
    \/ \E e \in Effects : BootReject(e) /\ UNCHANGED <<setupVars, fileCalls, shellVars>>

SpecSetup == Init /\ [][NextBoot \/ NextSetup]_vars

\* writeFileSync on the hook: the callbacks of every render, called at any
\* moment of the session, before and after a release.
NextWrite ==
    \/ \E c \in {NoInst} \cup Insts, path \in Paths : WriteFileSync(c, path)
    \/ \E w \in 1..MaxWrites, ok \in BOOLEAN : MkdirDone(w, ok)
    \/ \E w \in 1..MaxWrites, ok \in BOOLEAN : WriteDone(w, ok)

SpecWrite == Init /\ [][NextHookOnce \/ NextWrite]_vars

\* The callbacks of the terminal view.
NextShell ==
    \/ TermCommit
    \/ \E a \in Surfaces : InitTimerFires(a)
    \/ \E a \in Surfaces : WaitDone(a)
    \/ \E a \in Surfaces, got \in {"process", "throw", "null"} : SpawnDone(a, got)
    \/ \E a \in Surfaces : ShellOutput(a)
    \/ \E a \in Surfaces : ShellExit(a)
    \/ \E a \in Surfaces : ObserverFires(a)
    \/ \E a \in Surfaces : FrameRuns(a)

\* The terminal view on the hook's instance, under a parent that may change
\* its theme.
SpecShell == Init /\ [][NextHookOnce \/ NextShell \/ ThemeChange]_vars

\* The terminal view and its three data paths (output, keystrokes, resize).
NextBridge ==
    \/ TermCommit
    \/ \E a \in Surfaces : InitTimerFires(a)
    \/ \E a \in Surfaces : WaitDone(a)
    \/ \E a \in Surfaces, got \in {"process", "throw", "null"} : SpawnDone(a, got)
    \/ \E a \in Surfaces : ShellOutput(a)
    \/ \E a \in Surfaces : ShellExit(a)
    \/ \E a \in Surfaces, size \in Sizes : Resize(a, size, TRUE)
    \/ \E a \in Surfaces : Keystroke(a, "ok")

\* The failures of the three data paths.
NextFaults ==
    \/ \E a \in Surfaces, size \in Sizes : Resize(a, size, FALSE)
    \/ \E a \in Surfaces, res \in WriteResults \ {"ok"} : Keystroke(a, res)
    \/ \E a \in Surfaces : OutputPipeFails(a)

\* ... as the preview mounts it (theme "dark"): one attach, ended by the
\* unmount or by destroy().
SpecBridge == Init /\ [][NextHookOnce \/ NextBridge]_vars

\* ... on a sandbox whose process streams and resize calls may fail.
SpecFaults == Init /\ [][NextHookOnce \/ NextBridge \/ NextFaults]_vars

\* ... on a booted instance, under a parent that may change the theme.
SpecThemed == Init /\ [][NextBoot \/ NextBridge \/ ThemeChange]_vars

\* The setup under a parent that leaves forceResetup at its default.
NextSetupUnforced ==
    \/ Commit
    \/ \E r \in Runs : DetectDone(r)
    \/ \E r \in Runs, ok \in BOOLEAN : MountDone(r, ok)
    \/ \E r \in Runs, ok \in BOOLEAN : RmDone(r, ok)
    \/ \E r \in Runs, ok \in BOOLEAN : InstallSpawned(r, ok)
    \/ \E r \in Runs, code \in {0, 1} : InstallExit(r, code)
    \/ \E r \in Runs : ReadPkgDone(r)
    \/ \E r \in Runs, ok \in BOOLEAN : StartSpawned(r, ok)
    \/ \E i \in Insts : ServerReady(i)

\* The output pipes of the setup's two processes may fail.
NextPipes ==
    \/ \E r \in Runs : InstallPipeFails(r)
    \/ \E r \in Runs : StartPipeFails(r)

SpecPipes == Init /\ [][NextBoot \/ NextSetupUnforced \/ NextPipes]_vars

\* The preview with its terminal pane mounting beside it: the pane is loaded
\* lazily, so a run may fail before the pane's handle exists, between the
\* commit that attaches the handle and the pane's effect, or after the
\* unmount of the tree is committed.  The parent raises forceResetup once.
NextReport ==
    \/ NextHookOnce
    \/ NextSetupUnforced
    \/ ToggleForce /\ ~forceResetup
    \/ PaneLayout
    \/ TermCommit
    \/ UnmountCommit

SpecReport == Init /\ [][NextReport]_vars

\* The preview as this repository wires it: the hook, the setup and the
\* terminal pane with theme "dark", forceResetup left at its default.
SpecPane == Init /\ [][NextHookOnce \/ NextSetupUnforced \/ NextShell]_vars

\* ------------------------------------------------------------------ claims
RunIds == 1..Len(runs)
InFlight == {r \in RunIds : runs[r].pc # "done"}
Pending == {e \in Effects : effects[e].boot = "pending"}

\* C1: at most one setup run is in flight at any time; a second run never
\* starts while an earlier one has not terminated.
C1_AtMostOneRunInFlight == Cardinality(InFlight) <= 1

\* C2: a run that starts on a readable, non-empty package.json with
\* forceResetup false leaves detection by the reconnect path only: it registers
\* one server-ready listener, marks setup complete, and never calls mount,
\* fs.rm or either spawn.
C2_ReconnectSkipsProvisioning ==
    /\ [](\A r \in RunIds : runs[r].how = "reconnect" =>
            /\ runs[r].pc = "done" /\ runs[r].listens = 1
            /\ runs[r].mounts = 0 /\ runs[r].rms = 0
            /\ runs[r].installs = 0 /\ runs[r].starts = 0)
    /\ [][\A r \in RunIds :
            (/\ runs[r].pc = "detect" /\ runs'[r].pc # "detect"
             /\ runs[r].rd \notin {"throw", "empty"} /\ ~runs[r].force)
            => /\ runs'[r].how = "reconnect"
               /\ isSetupComplete'
               /\ sandbox'[runs[r].inst].listeners
                      = sandbox[runs[r].inst].listeners + 1]_vars
C2_Witness ==
    \E r \in RunIds : runs[r].how = "reconnect" /\ isSetupComplete

\* C3 as stated: a run with forceResetup true always executes mount, install
\* and start.
C3_ForceRunAlwaysProvisions ==
    \A r \in RunIds : (runs[r].force /\ runs[r].pc = "done") =>
        (runs[r].mounts = 1 /\ runs[r].installs = 1 /\ runs[r].starts = 1)

\* C3 amended: a run with forceResetup true never reconnects: whatever
\* package.json holds it calls mount when detection ends, and it ends without
\* install and start only through a failed stage (mount or a spawn throws,
\* install exits non-zero).  The reset effect empties previewUrl in the commit
\* that renders forceResetup true, and a run with forceResetup true starts in
\* that commit or after it, hence the clearing precedes its mount.
C3_ForceRunProvisionsUnlessStageFails ==
    /\ [](\A r \in RunIds : runs[r].force =>
            /\ runs[r].how # "reconnect"
            /\ runs[r].pc # "detect" => runs[r].mounts = 1
            /\ (runs[r].pc = "done" /\ runs[r].how \notin {"fatal", "softfail"})
                   => (runs[r].installs = 1 /\ runs[r].starts = 1))
    /\ [][/\ (rendered'.force /\ ~(rendered.committed /\ rendered.force))
                 => previewUrl' = ""
          /\ (Len(runs') > Len(runs) /\ runs'[Len(runs')].force)
                 => (rendered'.force /\ runs'[Len(runs')].mounts = 0)]_vars
C3_Witness ==
    \E r \in RunIds : /\ runs[r].force /\ runs[r].how = "started"
                      /\ runs[r].mounts = 1 /\ runs[r].starts = 1
                      /\ \E q \in RunIds : runs[q].how = "reconnect"

\* C4: when npm install exits non-zero the run ends as a soft failure:
\* internalError is set, setup is marked complete, the in-progress flag is
\* false, and the run never spawns the start process.
C4_InstallFailureIsSoft ==
    /\ [](\A r \in RunIds : (runs[r].code \notin {-1, 0}) =>
            (runs[r].pc = "done" /\ runs[r].starts = 0))
    /\ [][\A r \in RunIds :
            (runs[r].pc = "install" /\ runs'[r].code \notin {-1, 0})
            => /\ internalError' # "null"
               /\ isSetupComplete'
               /\ ~isSetupInProgress']_vars
C4_Witness ==
    \E r \in RunIds : /\ runs[r].code = 1 /\ runs[r].pc = "done"
                      /\ internalError = "install failed"

\* C5: once teardown is requested while a run is in flight, the run, when its
\* stage completes, ends there: it issues no further sandbox call and changes
\* no setup state.
C5_TornDownRunAbandons ==
    [][\A r \in RunIds :
         (isTornDown /\ runs[r].pc # "done" /\ runs'[r] # runs[r])
         => /\ runs'[r].pc = "done"
            /\ runs'[r].mounts = runs[r].mounts
            /\ runs'[r].installs = runs[r].installs
            /\ runs'[r].starts = runs[r].starts
            /\ SetupState' = SetupState]_vars

\* C6: WebContainer.boot() is never in flight twice at once, and the ref
\* isInitializing is set while it is in flight.
C6_OneBootInFlight ==
    /\ Cardinality(Pending) <= 1
    /\ Pending # {} => isInitializing
C6_Witness ==
    \E e, f \in Effects : effects[e].boot = "pending" /\ effects[f].boot = "skipped"

\* C7: a boot that resolves after its effect was cleaned up, or after the
\* consumer requested teardown (destroy() was called while the boot was
\* pending, or isTornDown is set), is torn down in that step and not handed
\* out: instance stays null and isReady stays false.
C7_LateBootIsDiscarded ==
    [][\A e \in Effects :
         (/\ effects[e].boot = "pending"
          /\ effects'[e].boot \notin {"pending", "failed"}
          /\ (~effects[e].mounted \/ isTornDown \/ effects[e].destroyAsked))
         => /\ effects'[e].boot = "discarded"
            /\ effects'[e].containerRef = NoInst
            /\ sandbox'[e].teardowns = 1
            /\ instance = NoInst /\ instance' = NoInst
            /\ ~isReady /\ ~isReady']_vars

\* C8: once isTornDown is set it stays set, and the hook does not hand out a
\* torn-down instance: the instance a mounted hook returns is one whose
\* teardown() was never called.
C8_TeardownMonotonic ==
    /\ [][isTornDown => isTornDown']_vars
    /\ []((alive /\ instance # NoInst) => sandbox[instance].teardowns = 0)

\* C9: a release after the first one, or with nothing acquired, changes no
\* release state: the flag, the handed-out instance, isReady and serverUrl
\* stay, no timer is scheduled, and teardown() is called only by a timer the
\* first release scheduled.
TimerFires(e) == effects[e].timer = "pending" /\ effects'[e].timer = "fired"
NeverAcquired == \A e \in Effects : effects[e].containerRef = NoInst
BootSettles == \E e \in Effects : effects[e].boot = "pending" /\ effects'[e].boot # "pending"
C9_ReleaseIdempotent ==
    [][/\ isTornDown =>
            /\ isTornDown' /\ instance' = instance
            /\ isReady' = isReady /\ serverUrl' = serverUrl
            /\ \A e \in Effects : effects'[e].timer # effects[e].timer => TimerFires(e)
            /\ \A i \in Insts : sandbox'[i].teardowns # sandbox[i].teardowns =>
                  /\ sandbox'[i].teardowns = sandbox[i].teardowns + 1
                  /\ \E e \in Effects : effects[e].containerRef = i /\ TimerFires(e)
       /\ (NeverAcquired /\ ~BootSettles) =>
            /\ isTornDown' = isTornDown /\ instance' = instance
            /\ isReady' = isReady /\ serverUrl' = serverUrl
            /\ \A e \in Effects : effects'[e].timer = effects[e].timer
            /\ \A i \in Insts : sandbox'[i].teardowns = sandbox[i].teardowns]_vars
C9_Witness ==
    \E e \in Effects : /\ isTornDown /\ instance = NoInst
                       /\ effects[e].containerRef # NoInst /\ ~effects[e].mounted
                       /\ effects[e].timer = "none"
                       /\ sandbox[effects[e].containerRef].teardowns = 1

\* C10: no release path calls teardown() in the step that requests the
\* release; the call comes only after the grace delay.
C10_TeardownNeverInReleaseStep ==
    [][(~isTornDown /\ isTornDown')
         => \A i \in Insts : sandbox'[i].teardowns = sandbox[i].teardowns]_vars

\* C11: writeFileSync called while the instance is absent (in the hook, or in
\* the closure of the callback that is called) or a teardown has been
\* requested fails at once with the not-available error, and has issued
\* no mkdir and no writeFile.
CallIds == 1..Len(fileCalls)
Called(w) == Len(fileCalls) < w /\ Len(fileCalls') >= w
C11_WriteFailsFast ==
    /\ [](\A w \in CallIds : fileCalls[w].err = NotAvailable =>
             /\ fileCalls[w].pc = "err"
             /\ fileCalls[w].mkdirs = 0 /\ fileCalls[w].writes = 0)
    /\ [][\A w \in 1..MaxWrites :
             (Called(w) /\ (instance = NoInst \/ fileCalls'[w].inst = NoInst
                             \/ isTornDown)) =>
                 /\ fileCalls'[w].err = NotAvailable
                 /\ fileCalls'[w].mkdirs = 0 /\ fileCalls'[w].writes = 0]_vars
C11_Witness ==
    \E v, w \in CallIds :
        /\ v < w
        /\ fileCalls[v].inst # NoInst /\ fileCalls[v].err = NotAvailable
        /\ fileCalls[w].inst = NoInst /\ fileCalls[w].err = NotAvailable
        /\ isTornDown /\ instance # NoInst

\* C12: every error of writeFileSync names the path, the error of an absent
\* or torn-down session included.
NamesPath(err, path) == \E i \in DOMAIN err : err[i] = path
C12_EveryErrorNamesPath ==
    \A w \in CallIds : fileCalls[w].pc = "err" =>
        NamesPath(fileCalls[w].err, fileCalls[w].path)

\* C13: when the boot fails on a mounted hook, the hook ends in the error
\* state: error is set, isLoading is false, instance stays null and that
\* step starts no other boot.
BootFails(e) == effects[e].boot = "pending" /\ effects'[e].boot = "failed"
C13_BootFailureIsTerminal ==
    [][\A e \in Effects : (BootFails(e) /\ alive) =>
           /\ error' # "null" /\ ~isLoading' /\ instance' = NoInst
           /\ \A f \in Effects : effects'[f].boot # "pending"]_vars

\* C14: within one setup run the stages come strictly in sequence: the
\* detection has answered before mount is issued, mount has completed before
\* npm install is spawned, npm install has exited before the start command
\* is spawned, and each of the three is issued at most once.
Stage(pc) ==
    CASE pc = "detect" -> 1
      [] pc = "mount" -> 2
      [] pc = "rm" -> 3
      [] pc = "spawnInstall" -> 4
      [] pc = "install" -> 5
      [] pc = "readPkg" -> 6
      [] pc = "spawnStart" -> 7
      [] pc = "done" -> 8
C14_StagesInSequence ==
    /\ [](\A r \in RunIds :
             /\ runs[r].mounts <= 1 /\ runs[r].installs <= 1 /\ runs[r].starts <= 1
             /\ runs[r].mounts = 1 => runs[r].pc # "detect"
             /\ runs[r].installs = 1 =>
                   runs[r].mounts = 1 /\ runs[r].pc \notin {"detect", "mount"}
             /\ runs[r].starts = 1 =>
                   runs[r].installs = 1 /\ runs[r].code # -1
                   /\ runs[r].pc \notin {"detect", "mount", "rm", "spawnInstall",
                                          "install"})
    /\ [][\A r \in RunIds :
             /\ Stage(runs'[r].pc) >= Stage(runs[r].pc)
             /\ runs'[r].mounts > runs[r].mounts => runs[r].pc = "detect"
             /\ runs'[r].installs > runs[r].installs => runs[r].pc = "rm"
             /\ runs'[r].starts > runs[r].starts => runs[r].pc = "readPkg"]_vars
C14_Witness ==
    \E r \in RunIds :
        /\ runs[r].how = "started"
        /\ runs[r].mounts = 1 /\ runs[r].installs = 1 /\ runs[r].starts = 1

\* C15: in the step in which a setup run terminates (reconnect, success,
\* soft failure or caught exception) the in-progress flag is false afterwards.
Terminates(r) == runs[r].pc # "done" /\ runs'[r].pc = "done"
C15_TerminatedRunClearsInProgress ==
    [][\A r \in RunIds : Terminates(r) => ~isSetupInProgress']_vars
C15_Witness ==
    \E q, r \in RunIds :
        /\ runs[q].how = "reconnect" /\ runs[r].how = "fatal"
        /\ ~isSetupInProgress

\* C16 as stated: an exception of mount, of the install spawn or of the
\* start spawn is caught: the error is set and written to the terminal, the
\* setup is marked complete and not in progress, the run executes nothing
\* more, and no run starts after it unless a forceResetup reset has cleared
\* the complete flag.
StageThrows(r) ==
    /\ runs[r].pc \in {"mount", "spawnInstall", "spawnStart"}
    /\ runs[r].how # "fatal" /\ runs'[r].how = "fatal"
SomeFatal == \E r \in RunIds : runs[r].how = "fatal"
C16_StageExceptionIsFatal ==
    [][/\ \A r \in RunIds :
            /\ StageThrows(r) =>
                  /\ runs'[r].pc = "done" /\ runs'[r].written
                  /\ internalError' # "null"
                  /\ isSetupComplete' /\ ~isSetupInProgress'
            /\ runs[r].how = "fatal" => runs'[r] = runs[r]
       /\ SomeFatal =>
            /\ Len(runs') > Len(runs) => ~isSetupComplete
            /\ (isSetupComplete /\ ~isSetupComplete') =>
                  forceResetup /\ ResetFires(rendered, Deps)]_vars

\* C16, amended: the exception is caught and the error is set; the message
\* is handed to the terminal pane if the pane is mounted at that moment and
\* is written if the pane also has a terminal, and is dropped otherwise; the
\* setup is marked complete and not in progress, the run executes nothing
\* more, and no run starts after it unless a forceResetup reset has cleared
\* the complete flag.
C16_StageExceptionSurfaced ==
    [][/\ \A r \in RunIds :
            /\ StageThrows(r) =>
                  /\ runs'[r].pc = "done"
                  /\ runs'[r].reported = (alive /\ attached.handle)
                  /\ runs'[r].written =
                        (alive /\ attached.handle /\ term # NoSurface)
                  /\ internalError' # "null"
                  /\ isSetupComplete' /\ ~isSetupInProgress'
            /\ runs[r].how = "fatal" => runs'[r] = runs[r]
       /\ SomeFatal =>
            /\ Len(runs') > Len(runs) => ~isSetupComplete
            /\ (isSetupComplete /\ ~isSetupComplete') =>
                  forceResetup /\ ResetFires(rendered, Deps)]_vars
C16_Witness ==
    \E q, r \in RunIds :
        /\ runs[q].how = "fatal" /\ runs[q].installs = 1 /\ runs[q].starts = 0
        /\ runs[q].written
        /\ r > q /\ runs[r].force

\* C17: after a setup failure, while the hook holds the instance, the
\* terminal pane is rendered with that instance; once the terminal view has
\* committed, its terminal is open (writes reach it) and the shell bridge is
\* attached to the instance.
SetupFailed == \E r \in RunIds : runs[r].how \in {"fatal", "softfail"}
C17_PaneSurvivesSetupFailure ==
    (SetupFailed /\ alive /\ instance # NoInst) =>
        /\ TermDeps.mounted /\ TermDeps.inst = instance
        /\ attached = TermDeps =>
              /\ term # NoSurface
              /\ surfaces[term].state = "open"
              /\ surfaces[term].inst = instance
              /\ surfaces[term].timer \in {"pending", "fired"}
C17_Witness ==
    /\ SetupFailed /\ alive /\ instance # NoInst
    /\ term # NoSurface /\ surfaces[term].proc = "alive"
    /\ surfaces[term].timer = "fired"
    /\ \E r \in RunIds : runs[r].how = "fatal"

\* C18: nothing is issued to a sandbox that has not booted: a setup run
\* starts only on a non-null instance with the parent not loading, the
\* terminal is created only on a non-null instance, and the instance of every
\* run and of every terminal is a booted sandbox.
Booted(i) == i # NoInst /\ sandbox[i].booted
C18_NothingBeforeBoot ==
    /\ [](/\ \A r \in RunIds : Booted(runs[r].inst)
          /\ \A a \in Surfaces : surfaces[a].state # "none" => Booted(surfaces[a].inst)
          /\ (isLoading \/ \A e \in Effects : effects[e].boot # "published") =>
                /\ runs = <<>>
                /\ \A a \in Surfaces : surfaces[a].state = "none")
    /\ [][/\ Len(runs') > Len(runs) => Booted(instance) /\ ~isLoading
          /\ \A a \in Surfaces :
                surfaces[a].state = "none" /\ surfaces'[a].state # "none" =>
                    Booted(instance)]_vars
C18_Witness ==
    /\ Len(runs) > 0 /\ runs[1].installs = 1
    /\ \E a \in Surfaces : surfaces[a].proc = "alive"

\* C19: at most one shell process spawned by a terminal view is alive at
\* any time.
AliveShells == {a \in Surfaces : surfaces[a].proc = "alive"}
C19_AtMostOneShellAlive == Cardinality(AliveShells) <= 1

\* C20: no callback acts on a terminal after the cleanup has disposed it.
C20_NoUseAfterDispose == \A a \in Surfaces : ~surfaces[a].stale

\* C21: a resize of the terminal is forwarded to its live shell process if
\* and only if both columns and rows are strictly positive.
Resized(a) == surfaces'[a].size # surfaces[a].size
C21_ResizeForwardedIffPositive ==
    [][\A a \in Surfaces :
          (Resized(a) /\ surfaces[a].resizeL /\ surfaces[a].proc = "alive") =>
              IF Positive(surfaces'[a].size[1]) /\ Positive(surfaces'[a].size[2])
              THEN surfaces'[a].pty = surfaces'[a].size
              ELSE surfaces'[a].pty = surfaces[a].pty]_vars

\* C22: the shell is spawned with the measured columns and rows where they
\* are strictly positive, and with 80 columns or 24 rows where the measured
\* value is zero, negative or not a number; never with a degenerate size.
SpawnIssued(a) == surfaces[a].pc = "wait" /\ surfaces'[a].pc = "spawn"
C22_SafeSpawnSize ==
    /\ [](\A a \in Surfaces : surfaces[a].pc \notin {"idle", "skipped", "wait"} =>
             Positive(surfaces[a].pty[1]) /\ Positive(surfaces[a].pty[2]))
    /\ [][\A a \in Surfaces : SpawnIssued(a) =>
             /\ surfaces'[a].pty[1] =
                   IF Positive(surfaces[a].size[1]) THEN surfaces[a].size[1] ELSE 80
             /\ surfaces'[a].pty[2] =
                   IF Positive(surfaces[a].size[2]) THEN surfaces[a].size[2] ELSE 24]_vars
C22_Witness ==
    \E a \in Surfaces :
        /\ surfaces[a].proc = "alive"
        /\ surfaces[a].size = <<0, 30>> /\ surfaces[a].pty = <<80, 30>>

\* C23 as stated: every failed spawn is written to the terminal as an error,
\* stores no process, leaves the handle empty and resets the starting flag.
SpawnFails(a) == surfaces[a].pc = "spawn" /\ surfaces'[a].pc = "failed"
C23_SpawnFailureAlwaysWritten ==
    [][\A a \in Surfaces : SpawnFails(a) =>
           /\ surfaces'[a].out = "error"
           /\ surfaces'[a].proc = "none"
           /\ shellProcessRef' = NoSurface
           /\ ~isShellStarting']_vars

\* C23, amended: a failed spawn is caught; the error is written to the
\* terminal if a terminal is still attached (term.current is set) and nothing
\* is written otherwise; the failure stores no process, leaves the handle as
\* it was, resets the starting flag, and the attach never spawns again.
C23_SpawnFailureWrittenWhileAttached ==
    [][\A a \in Surfaces :
           /\ SpawnFails(a) =>
                 /\ surfaces'[a].out =
                       IF term # NoSurface THEN "error" ELSE surfaces[a].out
                 /\ surfaces'[a].proc = "none"
                 /\ shellProcessRef' = shellProcessRef
                 /\ ~isShellStarting'
           /\ surfaces[a].pc = "failed" =>
                 /\ surfaces'[a].pc = "failed" /\ surfaces'[a].proc = "none"
                 /\ surfaces'[a].timer = surfaces[a].timer]_vars
C23_Witness ==
    \E a \in Surfaces :
        /\ surfaces[a].pc = "failed" /\ surfaces[a].state = "open"
        /\ surfaces[a].out = "error" /\ surfaces[a].timer = "fired"
        /\ shellProcessRef = NoSurface /\ ~isShellStarting

\* C24 as stated: every exit of the shell process writes the exit notice,
\* releases both listeners and clears the handle.
Exits(a) == surfaces[a].proc \in {"alive", "killed"} /\ surfaces'[a].proc = "exited"
C24_ExitAlwaysNoticed ==
    [][\A a \in Surfaces : Exits(a) =>
           /\ surfaces'[a].out = "exit"
           /\ ~surfaces'[a].dataL /\ ~surfaces'[a].resizeL
           /\ shellProcessRef' = NoSurface]_vars

\* C24, amended: when the shell process exits, the exit notice is written if
\* a terminal is attached at that moment (term.current is set) and not
\* otherwise; both listeners are released, so the exited process receives no
\* keystroke and no resize afterwards, and the handle is cleared.
C24_ExitReleasesBridge ==
    [][\A a \in Surfaces :
           /\ Exits(a) =>
                 /\ surfaces'[a].out =
                       IF term # NoSurface THEN "exit" ELSE surfaces[a].out
                 /\ ~surfaces'[a].dataL /\ ~surfaces'[a].resizeL
                 /\ shellProcessRef' = NoSurface
           /\ surfaces[a].proc = "exited" =>
                 /\ surfaces'[a].proc = "exited"
                 /\ surfaces'[a].fed = surfaces[a].fed
                 /\ surfaces'[a].pty = surfaces[a].pty]_vars
C24_Witness ==
    \E a \in Surfaces :
        /\ surfaces[a].proc = "exited" /\ surfaces[a].state = "open"
        /\ surfaces[a].out = "exit" /\ surfaces[a].fed
        /\ surfaces[a].size # surfaces[a].pty /\ Positive(surfaces[a].size[1])
        /\ Positive(surfaces[a].size[2])
        /\ shellProcessRef = NoSurface

\* C25: previewUrl starts empty and becomes non-empty only in a step in which
\* a sandbox that is running delivers server-ready to a listener that a setup
\* run has registered; the reset empties it again.
Listening(i) ==
    /\ sandbox[i].booted /\ sandbox[i].teardowns = 0 /\ sandbox[i].listeners > 0
    /\ \E r \in RunIds : runs[r].inst = i /\ runs[r].listens > 0
C25_UrlOnlyAfterSignal ==
    /\ previewUrl = ""
    /\ [][previewUrl' # previewUrl =>
             \/ previewUrl' = "" /\ ResetFires(rendered, Deps)
             \/ previewUrl' = "url" /\ \E i \in Insts : Listening(i)]_vars
C25_Witness ==
    /\ previewUrl = "url"
    /\ \E r \in RunIds : runs[r].how = "started" /\ runs[r].force

\* C26: once the session is torn down, no preview URL remains published by
\* the mounted preview.
C26_UrlClearedOnTeardown == (alive /\ isTornDown) => previewUrl = ""

\* C27: the start stage runs "dev" exactly when the manifest read returned
\* JSON that defines scripts.dev, and "start" in every other case; a failed
\* read or parse goes on to the spawn.
C27_StartCommandChoice ==
    [][\A r \in RunIds : (runs[r].pc = "readPkg" /\ runs'[r].pc # "readPkg") =>
           /\ runs'[r].pc = "spawnStart" /\ runs'[r].starts = runs[r].starts + 1
           /\ runs'[r].how = "none"
           /\ runs'[r].cmd = IF runs[r].rd = "dev" THEN "dev" ELSE "start"]_vars
C27_Witness ==
    \E r \in RunIds : runs[r].cmd = "dev" /\ runs[r].how = "started"

\* C28: for a path with a directory part writeFileSync issues mkdir first
\* and the file write only after mkdir succeeded; for a path without one it
\* issues only the file write.
WithDirectory == {"src/a.js"}
C28_MkdirBeforeWrite ==
    /\ [](\A w \in CallIds :
             /\ fileCalls[w].mkdirs <= 1 /\ fileCalls[w].writes <= 1
             /\ fileCalls[w].path \in WithDirectory =>
                   /\ fileCalls[w].writes = 1 => fileCalls[w].mkdirs = 1
                   /\ fileCalls[w].pc = "mkdir" => fileCalls[w].writes = 0
                   /\ fileCalls[w].err = WriteFailed(fileCalls[w].path, "mkdir") =>
                         fileCalls[w].writes = 0
                   /\ fileCalls[w].pc = "ok" => fileCalls[w].mkdirs = 1
             /\ fileCalls[w].path \notin WithDirectory =>
                   /\ fileCalls[w].mkdirs = 0
                   /\ fileCalls[w].pc \in {"write", "ok"} => fileCalls[w].writes = 1)
    /\ [][\A w \in CallIds :
             (fileCalls'[w].writes > fileCalls[w].writes) =>
                 fileCalls[w].pc = "mkdir" /\ fileCalls[w].mkdirs = 1]_vars
C28_Witness ==
    \E v, w \in CallIds :
        /\ fileCalls[v].path = "src/a.js" /\ fileCalls[v].pc = "ok"
        /\ fileCalls[v].mkdirs = 1 /\ fileCalls[v].writes = 1
        /\ fileCalls[w].path = "a.js" /\ fileCalls[w].pc = "ok"
        /\ fileCalls[w].mkdirs = 0 /\ fileCalls[w].writes = 1

\* C29: one mounted terminal view creates only one terminal surface, however
\* often its effect fires.
Created == {a \in Surfaces : surfaces[a].state # "none"}
C29_OneSurfacePerView == Cardinality(Created) <= 1

\* C30: a detach that finds the deferred-spawn timer pending cancels it, and
\* that attach never starts a shell.
Detached(a) == surfaces[a].state = "open" /\ surfaces'[a].state = "disposed"
C30_DetachCancelsTimer ==
    /\ [](\A a \in Surfaces : surfaces[a].timer = "cleared" =>
             /\ surfaces[a].state = "disposed"
             /\ surfaces[a].pc = "idle" /\ surfaces[a].proc = "none")
    /\ [][\A a \in Surfaces :
             (Detached(a) /\ surfaces[a].timer = "pending") =>
                 surfaces'[a].timer = "cleared"]_vars
C30_Witness ==
    \E a \in Surfaces :
        /\ surfaces[a].timer = "cleared" /\ surfaces[a].state = "disposed"
        /\ surfaces[a].proc = "none"

\* C31: when the cleanup runs for a terminal, it completes whether or not
\* killing the live shell throws: the surface is disposed, the timer and the
\* observer are released, and the terminal reference, the process handle and
\* the starting flag end empty.
CleanupRuns(a) == term = a /\ attached' # attached
C31_CleanupSurvivesKillError ==
    [][\A a \in Surfaces : CleanupRuns(a) =>
           /\ surfaces'[a].state = "disposed" /\ ~surfaces'[a].observing
           /\ surfaces'[a].timer # "pending"
           /\ term' = NoSurface /\ shellProcessRef' = NoSurface
           /\ ~isShellStarting']_vars
C31_Witness ==
    \E a \in Surfaces :
        /\ surfaces[a].killThrew /\ surfaces[a].state = "disposed"
        /\ term = NoSurface /\ shellProcessRef = NoSurface /\ ~isShellStarting

\* C32: every failure on one of the three shell data paths (input write,
\* resize, output pipe) is caught on that path, so no rejection is left
\* without a handler, and the step that fails leaves the other two paths
\* wired.
DataPaths == {"input", "resize", "output"}
Wired(sf, path) ==
    CASE path = "input" -> sf.dataL
      [] path = "resize" -> sf.resizeL
      [] path = "output" -> sf.piped
FailsOn(a, path) ==
    \/ path \in surfaces'[a].logged \ surfaces[a].logged
    \/ path = "input" /\ surfaces'[a].unhandled /\ ~surfaces[a].unhandled
C32_DataPathsIsolated ==
    [][\A a \in Surfaces : \A path \in DataPaths : FailsOn(a, path) =>
           /\ surfaces'[a].unhandled = surfaces[a].unhandled
           /\ path \in surfaces'[a].logged
           /\ \A other \in DataPaths \ {path} :
                  Wired(surfaces'[a], other) = Wired(surfaces[a], other)]_vars

\* C33: no failure at the sandbox boundary, the failure of a process's output
\* pipe included, is left as a rejection that nothing handles.
C33_NoUnhandledRejection ==
    /\ \A r \in RunIds : ~runs[r].unhandled
    /\ \A a \in Surfaces : ~surfaces[a].unhandled

\* C34: teardown() is invoked at most once on every booted instance, whatever
\* the order of boot completion, cleanup, the delayed-teardown timer and
\* destroy().
C34_TeardownAtMostOnce == \A i \in Insts : sandbox[i].teardowns <= 1
C34_Witness ==
    \E e \in Effects :
        /\ sandbox[e].teardowns = 1 /\ effects[e].timer = "fired"
        /\ effects[e].containerRef = e /\ instance = e /\ alive

\* C35: while the hook's effect is mounted, isLoading is true only while a
\* boot call is pending.
C35_LoadingOnlyWhileBooting == (Current # 0 /\ isLoading) => Pending # {}

\* C36: while a setup run has started and has not terminated,
\* isSetupInProgress is true.
C36_InProgressTracksRun == InFlight # {} => isSetupInProgress

\* C37: no shell process is alive on a terminal that was detached, unless
\* the detach tried to kill it and the kill threw: a spawn that resolves
\* after the cleanup leaves no live process behind.
C37_NoShellOutlivesDetach ==
    \A a \in Surfaces :
        (Disposed(a) /\ surfaces[a].proc = "alive") => surfaces[a].killThrew

\* C38: the exit of a shell process clears the stored handle only if the
\* handle is that process; the handle of another process is left as it is.
C38_ExitClearsOwnHandleOnly ==
    [][\A a \in Surfaces : Exits(a) =>
           shellProcessRef' = IF shellProcessRef = a THEN NoSurface
                              ELSE shellProcessRef]_vars

\* C39: at most one server-ready listener is registered on a sandbox
\* instance, however many setup runs it has seen.
C39_OneListenerPerInstance == \A i \in Insts : sandbox[i].listeners <= 1

\* C40: writeFileSync issues mkdir or writeFile only on an instance whose
\* teardown() has not been invoked.
Issued(w) ==
    IF w \in CallIds
    THEN fileCalls'[w].mkdirs + fileCalls'[w].writes
             > fileCalls[w].mkdirs + fileCalls[w].writes
    ELSE fileCalls'[w].mkdirs + fileCalls'[w].writes > 0
C40_NoFileOpAfterTeardown ==
    [][\A w \in 1..Len(fileCalls') :
           Issued(w) => sandbox[fileCalls'[w].inst].teardowns = 0]_vars

====
